---- MODULE Spec2Model ----
(***************************************************************************)
(* A model of the RISC-U emulator of src/src/emulate.rs: the machine state *)
(* (EmulatorState), the ABI initialisation done by run(), the             *)
(* fetch-decode-execute loop, one execution rule per opcode and the        *)
(* emulated system calls.                                                  *)
(*                                                                         *)
(* Scaling.  The program works on u64 words made of 8 bytes of 8 bits.     *)
(* The model keeps the 8 bytes per word (all address arithmetic is         *)
(* unchanged) and scales the width of a byte to ByteBits bits, so a word   *)
(* is 8 * ByteBits bits wide and all wrapping arithmetic is modulo         *)
(* 2^(8 * ByteBits).                                                       *)
(*                                                                         *)
(* Panics.  assert!, unimplemented!, an out-of-range index and (in a build *)
(* with overflow checks) an overflowing +, - abort the run.  A machine     *)
(* record carries a `panicked` flag; once it is set every later operation  *)
(* of the same handler leaves the record alone, so the record at the end   *)
(* of a handler is the machine as the panic left it.                       *)
(***************************************************************************)
EXTENDS Integers, Sequences, FiniteSets, TLC

VARIABLES
    registers,        \* EmulatorState.registers
    memory,           \* EmulatorState.memory (function 0..len-1 -> word)
    program_counter,  \* EmulatorState.program_counter
    program_break,    \* EmulatorState.program_break
    running,          \* EmulatorState.running
    out,              \* the bytes handed to standard output so far
    at,               \* position of run(): "new", "loop", "returned", or where it
                      \* panicked: "panic_init", "panic_fetch", "panic_execute"
    program,          \* the decoded program passed to run() (immutable)
    argv,             \* the argument vector passed to run() (immutable)
    overflow_checks,  \* build profile: TRUE when +, - panic on overflow
    instr,            \* run()'s local `instr`: the last instruction fetched
    prev,             \* history: the machine when `instr` was fetched, so that
                      \* executing `instr` on `prev` gave the present machine
    steps             \* history: loop iterations done

vars == <<registers, memory, program_counter, program_break, running, out, at,
          program, argv, overflow_checks, instr, prev, steps>>

----------------------------------------------------------------------------
(* Bounds of the model *)

ByteBits == 2
MemWords == 8
MaxSteps == 7
MaxArgs == 2
MaxStrLen == 9

----------------------------------------------------------------------------
(* Program constants *)

WORD_SIZE == 8
INSTRUCTION_SIZE == 4
PAGE_SIZE == 4096
NUMBER_OF_REGISTERS == 32

\* riscu::Register, as an index into `registers`
Zero == 0
Ra == 1
Sp == 2
T0 == 5
T1 == 6
T2 == 7
A0 == 10
A1 == 11
A2 == 12
A7 == 17

\* SyscallId (crate::engine::system, not part of emulate.rs): the call
\* numbers of the RISC-V Linux ABI; the rules only compare a7 with them
SyscallExit == 93
SyscallRead == 63
SyscallWrite == 64
SyscallOpenat == 56
SyscallBrk == 214

----------------------------------------------------------------------------
(* Words and bytes *)

RECURSIVE Pow2(_)
Pow2(n) == IF n = 0 THEN 1 ELSE 2 * Pow2(n - 1)

ByteBase == Pow2(ByteBits)
Modulus == Pow2(WORD_SIZE * ByteBits)

INSTRUCTION_SIZE_MASK == INSTRUCTION_SIZE - 1
WORD_SIZE_MASK == WORD_SIZE - 1

\* val & mask for a mask of the form 2^k - 1
MaskBits(val, mask) == val % (mask + 1)

\* `x as u64` of a sign-extended immediate
AsU64(imm) == ((imm % Modulus) + Modulus) % Modulus

wrapping_add(a, b) == (a + b) % Modulus
wrapping_sub(a, b) == ((a - b) + Modulus) % Modulus

RECURSIVE wrapping_mul(_, _)
wrapping_mul(a, b) ==
    IF b = 0 THEN 0
    ELSE (2 * wrapping_mul(a, b \div 2) + (b % 2) * a) % Modulus

wrapping_div(a, b) == a \div b
wrapping_rem(a, b) == a % b

\* a + b and a - b of the plain operators: the result wraps in a build
\* without overflow checks, and the operation panics in a build with them.
AddOverflows(a, b) == a + b >= Modulus
SubOverflows(a, b) == a < b

\* u64::to_le_bytes and LittleEndian::read_u64
to_le_bytes(w) == [i \in 1..WORD_SIZE |-> (w \div Pow2(ByteBits * (i - 1))) % ByteBase]

RECURSIVE read_u64_from(_, _)
read_u64_from(chunk, i) ==
    IF i > WORD_SIZE THEN 0
    ELSE chunk[i] + ByteBase * read_u64_from(chunk, i + 1)

read_u64(chunk) == read_u64_from(chunk, 1)

----------------------------------------------------------------------------
(* Machine records and their accessors (impl EmulatorState) *)

Machine ==
    [registers |-> registers, memory |-> memory,
     program_counter |-> program_counter, program_break |-> program_break,
     running |-> running, out |-> out, panicked |-> FALSE]

Panic(s) == [s EXCEPT !.panicked = TRUE]

pc_add(s, imm) ==
    IF s.panicked THEN s
    ELSE [s EXCEPT !.program_counter = wrapping_add(s.program_counter, imm)]

pc_next(s) == pc_add(s, INSTRUCTION_SIZE)

pc_set(s, val) ==
    IF s.panicked THEN s
    ELSE IF MaskBits(val, INSTRUCTION_SIZE_MASK) # 0 THEN Panic(s)
    ELSE [s EXCEPT !.program_counter = val]

get_reg(s, reg) == s.registers[reg]

set_reg(s, reg, val) ==
    IF s.panicked THEN s
    ELSE IF reg = Zero THEN Panic(s)
    ELSE [s EXCEPT !.registers[reg] = val]

\* set_reg_maybe without its test for the zero register, writing directly
set_reg_maybe_unguarded(s, reg, val) ==
    IF s.panicked THEN s ELSE [s EXCEPT !.registers[reg] = val]

set_reg_maybe(s, reg, val) ==
    IF reg = Zero THEN s ELSE set_reg(s, reg, val)

MemIndex(adr) == adr \div WORD_SIZE

MemInRange(s, adr) == MemIndex(adr) \in DOMAIN s.memory

get_mem(s, adr) == s.memory[MemIndex(adr)]

set_mem(s, adr, val) ==
    IF s.panicked THEN s
    ELSE IF ~MemInRange(s, adr) THEN Panic(s)
    ELSE [s EXCEPT !.memory[MemIndex(adr)] = val]

push_stack(s, val) ==
    IF s.panicked THEN s
    ELSE IF overflow_checks /\ SubOverflows(get_reg(s, Sp), WORD_SIZE) THEN Panic(s)
    ELSE LET sp == wrapping_sub(get_reg(s, Sp), WORD_SIZE)
         IN  set_mem(set_reg(s, Sp, sp), sp, val)

----------------------------------------------------------------------------
(* ABI initialisation *)

\* next_multiple_of rounding down instead of up
next_multiple_of_rounding_down(value, align) == (value \div align) * align

next_multiple_of(value, align) ==
    (((value + (align - 1)) % Modulus) \div align) * align

DataEnd(p) == p.data.address + Len(p.data.content) * WORD_SIZE

initial_program_break(p) == next_multiple_of(DataEnd(p) % Modulus, PAGE_SIZE)

InitialBreakOverflows(p) ==
    \/ DataEnd(p) >= Modulus
    \/ AddOverflows(DataEnd(p) % Modulus, PAGE_SIZE - 1)

set_initial_program_break(s, p) ==
    IF s.panicked THEN s
    ELSE IF overflow_checks /\ InitialBreakOverflows(p) THEN Panic(s)
    ELSE [s EXCEPT !.program_break = initial_program_break(p)]

RECURSIVE load_data_from(_, _, _)
load_data_from(s, p, i) ==
    IF i > Len(p.data.content) THEN s
    ELSE load_data_from(
             set_mem(s, p.data.address + (i - 1) * WORD_SIZE, p.data.content[i]),
             p, i + 1)

load_data_segment(s, p) == load_data_from(s, p, 1)

\* arg.to_owned() + "\0\0\0\0\0\0\0\0"
\* the string padded with NUL bytes to the next multiple of 8 only
CString_padded_to_word(arg) ==
    arg \o [i \in 1..((WORD_SIZE - (Len(arg) % WORD_SIZE)) % WORD_SIZE) |-> 0]

CString(arg) == arg \o [i \in 1..WORD_SIZE |-> 0]

\* c_string.as_bytes().chunks_exact(8): the k-th whole chunk
Chunk(bytes, k) == [i \in 1..WORD_SIZE |-> bytes[(k - 1) * WORD_SIZE + i]]
NumChunks(bytes) == Len(bytes) \div WORD_SIZE

\* pushes chunks k, k-1, ..., 1
RECURSIVE push_chunks(_, _, _)
push_chunks(s, bytes, k) ==
    IF k = 0 THEN s
    ELSE push_chunks(push_stack(s, read_u64(Chunk(bytes, k))), bytes, k - 1)

push_arg(s, arg) == push_chunks(s, CString(arg), NumChunks(CString(arg)))

\* argv.iter().rev().map(..).collect(): the machine after the strings of
\* argv[k], argv[k-1], ..., argv[1] are pushed, and the pointers collected
RECURSIVE push_args(_, _, _, _)
push_args(s, args, k, ptrs) ==
    IF k = 0 THEN [s |-> s, ptrs |-> ptrs]
    ELSE LET s1 == push_arg(s, args[k])
         IN  push_args(s1, args, k - 1, Append(ptrs, get_reg(s1, Sp)))

RECURSIVE push_all(_, _, _)
push_all(s, vals, i) ==
    IF i > Len(vals) THEN s
    ELSE push_all(push_stack(s, vals[i]), vals, i + 1)

\* load_stack_segment pushing the collected pointers last one first
load_stack_segment_pointers_reversed(s, args) ==
    LET argc == Len(args)
        r    == push_args(s, args, Len(args), << >>)
        s1   == push_stack(r.s, 0)
        s2   == push_stack(s1, 0)
        s3   == push_all(s2, [i \in 1..Len(r.ptrs) |-> r.ptrs[Len(r.ptrs) + 1 - i]], 1)
    IN  push_stack(s3, argc)

load_stack_segment(s, args) ==
    LET argc == Len(args)
        r    == push_args(s, args, Len(args), << >>)
        s1   == push_stack(r.s, 0)
        s2   == push_stack(s1, 0)
        s3   == push_all(s2, r.ptrs, 1)
    IN  push_stack(s3, argc)

set_running(s, b) == IF s.panicked THEN s ELSE [s EXCEPT !.running = b]

set_pc(s, val) == IF s.panicked THEN s ELSE [s EXCEPT !.program_counter = val]

\* run(), up to the loop
run_init(s, p, args) ==
    LET sp_value == Cardinality(DOMAIN s.memory) * WORD_SIZE
        s1 == set_reg(s, Sp, sp_value)
        s2 == set_pc(s1, p.code.address)
        s3 == set_initial_program_break(s2, p)
        s4 == load_data_segment(s3, p)
        s5 == load_stack_segment(s4, args)
    IN  set_running(s5, TRUE)

----------------------------------------------------------------------------
(* Instructions (riscu::Instruction): one record shape for every format *)

Instr(op, rd, rs1, rs2, imm) ==
    [op |-> op, rd |-> rd, rs1 |-> rs1, rs2 |-> rs2, imm |-> imm]

Lui(rd, imm)       == Instr("lui", rd, Zero, Zero, imm)
Jal(rd, imm)       == Instr("jal", rd, Zero, Zero, imm)
Jalr(rd, rs1, imm) == Instr("jalr", rd, rs1, Zero, imm)
Beq(rs1, rs2, imm) == Instr("beq", Zero, rs1, rs2, imm)
Ld(rd, rs1, imm)   == Instr("ld", rd, rs1, Zero, imm)
Sd(rs1, rs2, imm)  == Instr("sd", Zero, rs1, rs2, imm)
Addi(rd, rs1, imm) == Instr("addi", rd, rs1, Zero, imm)
Add(rd, rs1, rs2)  == Instr("add", rd, rs1, rs2, 0)
Sub(rd, rs1, rs2)  == Instr("sub", rd, rs1, rs2, 0)
Sltu(rd, rs1, rs2) == Instr("sltu", rd, rs1, rs2, 0)
Mul(rd, rs1, rs2)  == Instr("mul", rd, rs1, rs2, 0)
Divu(rd, rs1, rs2) == Instr("divu", rd, rs1, rs2, 0)
Remu(rd, rs1, rs2) == Instr("remu", rd, rs1, rs2, 0)
Ecall              == Instr("ecall", Zero, Zero, Zero, 0)
NoInstr            == Instr("none", Zero, Zero, Zero, 0)

----------------------------------------------------------------------------
(* fetch_and_decode *)

\* fetch_and_decode without its alignment assertion
FetchAligned_unchecked(s) == TRUE

FetchAligned(s) == MaskBits(s.program_counter, INSTRUCTION_SIZE_MASK) = 0

FetchIndex(s, p) ==
    wrapping_sub(s.program_counter, p.code.address) \div INSTRUCTION_SIZE

\* fetch_and_decode returns an instruction: the assertion holds, the
\* subtraction does not panic and the index is inside the code segment
FetchOk(s, p) ==
    /\ FetchAligned(s)
    /\ ~(overflow_checks /\ SubOverflows(s.program_counter, p.code.address))
    /\ FetchIndex(s, p) < Len(p.code.content)

\* fetch_and_decode executing out of the memory: a word of the memory that
\* is no longer zero at the program counter stands for another instruction
fetch_and_decode_from_memory(s, p) ==
    IF MemInRange(s, s.program_counter) /\ get_mem(s, s.program_counter) # 0
    THEN Ecall
    ELSE p.code.content[FetchIndex(s, p) + 1]

fetch_and_decode(s, p) == p.code.content[FetchIndex(s, p) + 1]

----------------------------------------------------------------------------
(* Execution rules *)

exec_lui(s, i) ==
    LET rd_value == AsU64(i.imm * 4096)
    IN  pc_next(set_reg(s, i.rd, rd_value))

exec_jal(s, i) ==
    IF overflow_checks /\ AddOverflows(s.program_counter, INSTRUCTION_SIZE)
    THEN Panic(s)
    ELSE LET rd_value == wrapping_add(s.program_counter, INSTRUCTION_SIZE)
         IN  pc_add(set_reg_maybe(s, i.rd, rd_value), AsU64(i.imm))

\* exec_jalr reading rs1 after it has written rd
exec_jalr_write_first(s, i) ==
    IF overflow_checks /\ AddOverflows(s.program_counter, INSTRUCTION_SIZE)
    THEN Panic(s)
    ELSE LET rd_value == wrapping_add(s.program_counter, INSTRUCTION_SIZE)
             s1       == set_reg_maybe(s, i.rd, rd_value)
             pc_value == wrapping_add(get_reg(s1, i.rs1), AsU64(i.imm))
         IN  pc_set(s1, pc_value)

exec_jalr(s, i) ==
    IF overflow_checks /\ AddOverflows(s.program_counter, INSTRUCTION_SIZE)
    THEN Panic(s)
    ELSE LET rs1_value == get_reg(s, i.rs1)
             rd_value  == wrapping_add(s.program_counter, INSTRUCTION_SIZE)
             pc_value  == wrapping_add(rs1_value, AsU64(i.imm))
         IN  pc_set(set_reg_maybe(s, i.rd, rd_value), pc_value)

\* exec_beq branching when the operands differ
exec_beq_inverted(s, i) ==
    LET rs1_value == get_reg(s, i.rs1)
        rs2_value == get_reg(s, i.rs2)
    IN  IF rs1_value # rs2_value THEN pc_add(s, AsU64(i.imm)) ELSE pc_next(s)

exec_beq(s, i) ==
    LET rs1_value == get_reg(s, i.rs1)
        rs2_value == get_reg(s, i.rs2)
    IN  IF rs1_value = rs2_value THEN pc_add(s, AsU64(i.imm)) ELSE pc_next(s)

exec_ld(s, i) ==
    LET rs1_value == get_reg(s, i.rs1)
        address   == wrapping_add(rs1_value, AsU64(i.imm))
    IN  IF ~MemInRange(s, address) THEN Panic(s)
        ELSE pc_next(set_reg(s, i.rd, get_mem(s, address)))

exec_sd(s, i) ==
    LET rs1_value == get_reg(s, i.rs1)
        rs2_value == get_reg(s, i.rs2)
        address   == wrapping_add(rs1_value, AsU64(i.imm))
    IN  pc_next(set_mem(s, address, rs2_value))

exec_addi(s, i) ==
    LET rs1_value == get_reg(s, i.rs1)
        rd_value  == wrapping_add(rs1_value, AsU64(i.imm))
    IN  pc_next(set_reg(s, i.rd, rd_value))

exec_add(s, i) ==
    LET rd_value == wrapping_add(get_reg(s, i.rs1), get_reg(s, i.rs2))
    IN  pc_next(set_reg(s, i.rd, rd_value))

\* exec_sub with the plain `-`, a panic on underflow
exec_sub_checked(s, i) ==
    IF SubOverflows(get_reg(s, i.rs1), get_reg(s, i.rs2)) THEN Panic(s)
    ELSE pc_next(set_reg(s, i.rd, get_reg(s, i.rs1) - get_reg(s, i.rs2)))

exec_sub(s, i) ==
    LET rd_value == wrapping_sub(get_reg(s, i.rs1), get_reg(s, i.rs2))
    IN  pc_next(set_reg(s, i.rd, rd_value))

exec_sltu(s, i) ==
    LET rd_value == IF get_reg(s, i.rs1) < get_reg(s, i.rs2) THEN 1 ELSE 0
    IN  pc_next(set_reg(s, i.rd, rd_value))

exec_mul(s, i) ==
    LET rd_value == wrapping_mul(get_reg(s, i.rs1), get_reg(s, i.rs2))
    IN  pc_next(set_reg(s, i.rd, rd_value))

exec_divu(s, i) ==
    LET rs1_value == get_reg(s, i.rs1)
        rs2_value == get_reg(s, i.rs2)
    IN  IF rs2_value = 0 THEN Panic(s)
        ELSE pc_next(set_reg(s, i.rd, wrapping_div(rs1_value, rs2_value)))

\* exec_remu without the assertion, giving 0 for a zero divisor
exec_remu_unasserted(s, i) ==
    LET rs1_value == get_reg(s, i.rs1)
        rs2_value == get_reg(s, i.rs2)
    IN  IF rs2_value = 0 THEN pc_next(set_reg(s, i.rd, 0))
        ELSE pc_next(set_reg(s, i.rd, wrapping_rem(rs1_value, rs2_value)))

exec_remu(s, i) ==
    LET rs1_value == get_reg(s, i.rs1)
        rs2_value == get_reg(s, i.rs2)
    IN  IF rs2_value = 0 THEN Panic(s)
        ELSE pc_next(set_reg(s, i.rd, wrapping_rem(rs1_value, rs2_value)))

----------------------------------------------------------------------------
(* System calls *)

\* syscall_read as an operation that does nothing
syscall_read_noop(s) == s

syscall_read(s) == Panic(s)

syscall_openat(s) == Panic(s)

\* (data_start..data_end).step_by(8).for_each(write_all(get_mem(adr).to_le_bytes()))
RECURSIVE write_words(_, _, _)
write_words(s, adr, data_end) ==
    IF s.panicked \/ adr >= data_end THEN s
    ELSE IF ~MemInRange(s, adr) THEN Panic(s)
    ELSE write_words([s EXCEPT !.out = s.out \o to_le_bytes(get_mem(s, adr))],
                     adr + WORD_SIZE, data_end)

syscall_write(s) ==
    LET fd     == get_reg(s, A0)
        buffer == get_reg(s, A1)
        size   == get_reg(s, A2)
        result == 1
        data_start == buffer
        data_end   == wrapping_add(buffer, size)
    IN  IF overflow_checks /\ AddOverflows(buffer, size) THEN Panic(s)
        ELSE IF fd # 1 THEN Panic(s)
        ELSE set_reg(write_words(s, data_start, data_end), A0, result)

\* syscall_brk without the lower bound of its range test
syscall_brk_no_lower_bound(s) ==
    LET address == get_reg(s, A0)
    IN  IF MaskBits(address, WORD_SIZE_MASK) # 0 THEN Panic(s)
        ELSE LET s1 == IF address < get_reg(s, Sp)
                       THEN [s EXCEPT !.program_break = address]
                       ELSE s
                 result == s1.program_break
             IN  set_reg(s1, A0, result)

syscall_brk(s) ==
    LET address == get_reg(s, A0)
    IN  IF MaskBits(address, WORD_SIZE_MASK) # 0 THEN Panic(s)
        ELSE LET s1 == IF (address >= s.program_break) /\ (address < get_reg(s, Sp))
                       THEN [s EXCEPT !.program_break = address]
                       ELSE s
                 result == s1.program_break
             IN  set_reg(s1, A0, result)

\* exec_ecall whose Exit arm also stores a result in a0
exec_ecall_exit_returns(s) ==
    LET a7_value == get_reg(s, A7)
        s1 == IF a7_value = SyscallExit THEN set_reg(set_running(s, FALSE), A0, 0)
              ELSE IF a7_value = SyscallRead THEN syscall_read(s)
              ELSE IF a7_value = SyscallWrite THEN syscall_write(s)
              ELSE IF a7_value = SyscallOpenat THEN syscall_openat(s)
              ELSE IF a7_value = SyscallBrk THEN syscall_brk(s)
              ELSE Panic(s)
    IN  pc_next(s1)

\* exec_ecall ending the run on an unknown system call
exec_ecall_unknown_exits(s) ==
    LET a7_value == get_reg(s, A7)
        s1 == IF a7_value = SyscallRead THEN syscall_read(s)
              ELSE IF a7_value = SyscallWrite THEN syscall_write(s)
              ELSE IF a7_value = SyscallOpenat THEN syscall_openat(s)
              ELSE IF a7_value = SyscallBrk THEN syscall_brk(s)
              ELSE set_running(s, FALSE)
    IN  pc_next(s1)

exec_ecall(s) ==
    LET a7_value == get_reg(s, A7)
        s1 == IF a7_value = SyscallExit THEN set_running(s, FALSE)
              ELSE IF a7_value = SyscallRead THEN syscall_read(s)
              ELSE IF a7_value = SyscallWrite THEN syscall_write(s)
              ELSE IF a7_value = SyscallOpenat THEN syscall_openat(s)
              ELSE IF a7_value = SyscallBrk THEN syscall_brk(s)
              ELSE Panic(s)
    IN  pc_next(s1)

execute(s, i) ==
    CASE i.op = "lui"   -> exec_lui(s, i)
      [] i.op = "jal"   -> exec_jal(s, i)
      [] i.op = "jalr"  -> exec_jalr(s, i)
      [] i.op = "beq"   -> exec_beq(s, i)
      [] i.op = "ld"    -> exec_ld(s, i)
      [] i.op = "sd"    -> exec_sd(s, i)
      [] i.op = "addi"  -> exec_addi(s, i)
      [] i.op = "add"   -> exec_add(s, i)
      [] i.op = "sub"   -> exec_sub(s, i)
      [] i.op = "sltu"  -> exec_sltu(s, i)
      [] i.op = "mul"   -> exec_mul(s, i)
      [] i.op = "divu"  -> exec_divu(s, i)
      [] i.op = "remu"  -> exec_remu(s, i)
      [] i.op = "ecall" -> exec_ecall(s)

----------------------------------------------------------------------------
(* Inputs: argument strings, data segments and programs *)

MemBytes == MemWords * WORD_SIZE

\* a NUL-free string of length len (bytes 1..ByteBase-1, period ByteBase-1)
StrOf(len, k) == [i \in 1..len |-> ((i + k) % (ByteBase - 1)) + 1]

Strings == {StrOf(len, k) : len \in 0..MaxStrLen, k \in 0..1}

RECURSIVE SeqsUpTo(_, _)
SeqsUpTo(S, n) ==
    IF n = 0 THEN {<< >>}
    ELSE LET shorter == SeqsUpTo(S, n - 1)
         IN  shorter \cup {Append(q, x) : q \in {r \in shorter : Len(r) = n - 1}, x \in S}

Argvs == SeqsUpTo(Strings, MaxArgs)

DataWord(k) == read_u64(StrOf(WORD_SIZE, k))

\* no data; two words at address 0; no data, at the top of the address space
DataSegments ==
    {[address |-> 0, content |-> << >>],
     [address |-> 0, content |-> <<DataWord(0), DataWord(1)>>],
     [address |-> Modulus - WORD_SIZE, content |-> << >>]}

\* addi reg, zero, v; nothing when v = 0 (the registers start at 0)
Load(reg, v) == IF v = 0 THEN << >> ELSE <<Addi(reg, Zero, v)>>

SyscallPrograms ==
    {Load(A7, n) \o Load(A0, x) \o <<Ecall>> \o tail :
        n \in {SyscallExit, SyscallRead, SyscallOpenat, SyscallBrk, 1},
        x \in {0, 8, 12, 16, MemBytes},
        tail \in {<< >>, <<Ecall>>, <<Addi(A0, Zero, 8), Ecall>>}}

WritePrograms ==
    {Load(A7, SyscallWrite) \o Load(A0, fd) \o Load(A1, buffer) \o Load(A2, size)
        \o <<Ecall>> \o tail :
        fd \in {1, 2}, buffer \in {0, 4, 8, -8}, size \in {0, 3, 8, 12, 16},
        tail \in {<< >>, <<Ecall>>, <<Addi(A0, Zero, 2), Ecall>>}}

Bodies ==
    {Lui(rd, imm) : rd \in {Zero, T2}, imm \in {1, 3}}
    \cup {Jal(rd, imm) : rd \in {Zero, Ra}, imm \in {-4, 2, 4, 8}}
    \cup {Jalr(rd, T0, imm) : rd \in {Zero, Ra, T0}, imm \in {0, 2, 4}}
    \cup {Beq(T0, T1, imm) : imm \in {-4, 2, 8}}
    \cup {Ld(rd, rs1, imm) : rd \in {Zero, T2}, rs1 \in {T0, Sp}, imm \in {0, 4, 8}}
    \cup {Sd(rs1, T1, imm) : rs1 \in {T0, Sp}, imm \in {-8, 0, 4}}
    \cup {Addi(rd, rs1, imm) : rd \in {Zero, T2, Sp}, rs1 \in {T0, Sp}, imm \in {-32, 1}}
    \cup {Instr(op, rd, T0, T1, 0) :
            op \in {"add", "sub", "sltu", "mul", "divu", "remu"}, rd \in {Zero, T2}}
    \cup {Ecall}

InstructionPrograms ==
    {Load(T0, x) \o Load(T1, y) \o <<body>> \o tail :
        x \in {0, 5, 8, -1}, y \in {0, 3, 8}, body \in Bodies,
        tail \in {<< >>, <<Sub(T2, T2, T1)>>, <<Addi(T2, T2, 1)>>, <<Remu(Ra, T0, T1)>>}}

CodeSegments == SyscallPrograms \cup WritePrograms \cup InstructionPrograms

\* code in the last two instruction slots of the address space
HighCodeSegments ==
    {<<first, second>> :
        first \in {Addi(T0, Zero, 8), Jal(Ra, 4)},
        second \in {Jal(Ra, 4), Jal(Zero, -4), Jalr(Ra, T0, 0), Jalr(T0, T0, 0),
                    Addi(T0, T0, 1), Ecall}}

Programs ==
    {[code |-> [address |-> 0, content |-> c], data |-> d] :
        c \in CodeSegments, d \in DataSegments}
    \cup {[code |-> [address |-> Modulus - 2 * INSTRUCTION_SIZE, content |-> c], data |-> d] :
        c \in HighCodeSegments, d \in DataSegments}

MainArgvs == {<<StrOf(2, 0)>>}

\* the programs of the ABI specification: run() is followed up to the loop
AbiPrograms ==
    {[code |-> [address |-> 0, content |-> <<Ecall>>], data |-> d] : d \in DataSegments}

AbiMemWords == {2, MemWords, 3 * MemWords}

----------------------------------------------------------------------------
(* The state after EmulatorState::new(memory_size) *)

new(n, p, args, checks) ==
    /\ registers = [r \in 0..(NUMBER_OF_REGISTERS - 1) |-> 0]
    /\ memory = [i \in 0..(n - 1) |-> 0]
    /\ program_counter = 0
    /\ program_break = 0
    /\ running = FALSE
    /\ out = << >>
    /\ at = "new"
    /\ program = p
    /\ argv = args
    /\ overflow_checks = checks
    /\ instr = NoInstr
    /\ prev = Machine
    /\ steps = 0

Init ==
    \E p \in Programs, args \in MainArgvs, checks \in BOOLEAN :
        new(MemWords, p, args, checks)

InitAbi ==
    \E n \in AbiMemWords, p \in AbiPrograms, args \in Argvs, checks \in BOOLEAN :
        new(n, p, args, checks)

----------------------------------------------------------------------------
(* Actions *)

\* the machine record s becomes the state; a panic ends the run
Commit(s, next_at, panic_at) ==
    /\ registers' = s.registers
    /\ memory' = s.memory
    /\ program_counter' = s.program_counter
    /\ program_break' = s.program_break
    /\ running' = s.running
    /\ out' = s.out
    /\ at' = IF s.panicked THEN panic_at ELSE next_at
    /\ UNCHANGED <<program, argv, overflow_checks>>

\* run(): the ABI initialisation, up to the first test of the loop
Run ==
    /\ at = "new"
    /\ Commit(run_init(Machine, program, argv), "loop", "panic_init")
    /\ UNCHANGED <<instr, prev, steps>>

\* one iteration of the loop whose fetch_and_decode panics
FetchPanic ==
    /\ at = "loop"
    /\ running
    /\ steps < MaxSteps
    /\ ~FetchOk(Machine, program)
    /\ Commit(Panic(Machine), "loop", "panic_fetch")
    /\ steps' = steps + 1
    /\ UNCHANGED <<instr, prev>>

\* the instruction fetch_and_decode returns in this iteration
Fetched == fetch_and_decode(Machine, program)

\* an iteration of the loop starts and fetch_and_decode returns an `op` instruction
Fetches(op) ==
    /\ at = "loop"
    /\ running
    /\ steps < MaxSteps
    /\ FetchOk(Machine, program)
    /\ Fetched.op = op

\* the rest of the iteration: execute has run the rule and left the machine s
Executed(s) ==
    /\ Commit(s, "loop", "panic_execute")
    /\ instr' = Fetched
    /\ prev' = Machine
    /\ steps' = steps + 1

\* one action per arm of execute's match
ExecLui ==
    /\ Fetches("lui")
    /\ Executed(execute(Machine, Fetched))

ExecJal ==
    /\ Fetches("jal")
    /\ Executed(execute(Machine, Fetched))

ExecJalr ==
    /\ Fetches("jalr")
    /\ Executed(execute(Machine, Fetched))

ExecBeq ==
    /\ Fetches("beq")
    /\ Executed(execute(Machine, Fetched))

ExecLd ==
    /\ Fetches("ld")
    /\ Executed(execute(Machine, Fetched))

ExecSd ==
    /\ Fetches("sd")
    /\ Executed(execute(Machine, Fetched))

ExecAddi ==
    /\ Fetches("addi")
    /\ Executed(execute(Machine, Fetched))

ExecAdd ==
    /\ Fetches("add")
    /\ Executed(execute(Machine, Fetched))

ExecSub ==
    /\ Fetches("sub")
    /\ Executed(execute(Machine, Fetched))

ExecSltu ==
    /\ Fetches("sltu")
    /\ Executed(execute(Machine, Fetched))

ExecMul ==
    /\ Fetches("mul")
    /\ Executed(execute(Machine, Fetched))

ExecDivu ==
    /\ Fetches("divu")
    /\ Executed(execute(Machine, Fetched))

ExecRemu ==
    /\ Fetches("remu")
    /\ Executed(execute(Machine, Fetched))

ExecEcall ==
    /\ Fetches("ecall")
    /\ Executed(execute(Machine, Fetched))

\* the loop ends when `running` is false, and run() returns
Return ==
    /\ at = "loop"
    /\ ~running
    /\ at' = "returned"
    /\ UNCHANGED <<registers, memory, program_counter, program_break, running, out,
                   program, argv, overflow_checks, instr, prev, steps>>

Next ==
    \/ Run
    \/ FetchPanic
    \/ ExecLui
    \/ ExecJal
    \/ ExecJalr
    \/ ExecBeq
    \/ ExecLd
    \/ ExecSd
    \/ ExecAddi
    \/ ExecAdd
    \/ ExecSub
    \/ ExecSltu
    \/ ExecMul
    \/ ExecDivu
    \/ ExecRemu
    \/ ExecEcall
    \/ Return

Spec == Init /\ [][Next]_vars

NextAbi == Run

SpecAbi == InitAbi /\ [][NextAbi]_vars

----------------------------------------------------------------------------
(* Vocabulary of the claims *)

\* the last iteration of the loop executed an `op` instruction (its rule may
\* have panicked); `prev` is the machine before it
Did(op) == instr.op = op

\* the last executed instruction was an Ecall with call number n in a7
DidEcall(n) == Did("ecall") /\ prev.registers[A7] = n

\* the rule of the last executed instruction ran to its end
Completed == at \in {"loop", "returned", "panic_fetch"}

Aligned(val, size) == val % size = 0

----------------------------------------------------------------------------
(* C1: in every reachable state register 0 holds 0; in particular a Jal or *)
(* Jalr with rd = zero leaves register 0 as it was.                        *)

C1_ZeroRegisterReadsZero ==
    /\ registers[Zero] = 0
    /\ prev.registers[Zero] = 0

C1_Witness ==
    /\ instr.op \in {"jal", "jalr"}
    /\ instr.rd = Zero
    /\ at = "loop"
    /\ program_counter # prev.program_counter

(* C2 (as claimed): an instruction other than Jal/Jalr with rd = zero and  *)
(* no other fatal condition is not fatal: no register changes, the program *)
(* counter advances by 4 and the run continues.                            *)

C2_NoOtherFault ==
    /\ instr.op \in {"divu", "remu"} => prev.registers[instr.rs2] # 0
    /\ instr.op = "ld" =>
          MemInRange(prev, wrapping_add(prev.registers[instr.rs1], AsU64(instr.imm)))

C2_AsClaimed ==
    (/\ instr.op \in {"lui", "ld", "addi", "add", "sub", "sltu", "mul", "divu", "remu"}
     /\ instr.rd = Zero
     /\ C2_NoOtherFault)
    => /\ at # "panic_execute"
       /\ registers = prev.registers
       /\ program_counter = wrapping_add(prev.program_counter, INSTRUCTION_SIZE)

(* C3: an instruction is fetched only at a program counter that is a       *)
(* multiple of 4: every executed instruction was fetched at an aligned     *)
(* address, and from a state of the loop whose program counter is not      *)
(* aligned the only step is the panic of fetch_and_decode, which executes  *)
(* nothing and changes nothing of the machine.                             *)

C3_UnalignedPcAborts ==
    [][ /\ instr' # NoInstr => Aligned(prev'.program_counter, INSTRUCTION_SIZE)
        /\ (at = "loop" /\ running /\ ~Aligned(program_counter, INSTRUCTION_SIZE))
              => /\ at' = "panic_fetch"
                 /\ instr' = instr
                 /\ prev' = prev
                 /\ <<registers, memory, program_counter, program_break, out>>'
                      = <<registers, memory, program_counter, program_break, out>>
      ]_vars

C3_Witness ==
    /\ instr.op \in {"jal", "beq"}
    /\ ~Aligned(program_counter, INSTRUCTION_SIZE)
    /\ at = "panic_fetch"

(* C4: `running` goes from true to false only in a step that executes      *)
(* Ecall with a7 = Exit, and after initialisation it never goes from false *)
(* to true.                                                                *)

C4_OnlyExitClearsRunning ==
    [][ /\ (running /\ ~running')
              => /\ Fetches("ecall")
                 /\ registers[A7] = SyscallExit
        /\ (~running /\ running') => at = "new"
      ]_vars

C4_Witness ==
    /\ DidEcall(SyscallExit)
    /\ ~running
    /\ at = "returned"

(* C5: an Ecall with a7 = Brk and an 8-byte aligned request r in a0 sets   *)
(* program_break to r when program_break <= r < sp and leaves it unchanged *)
(* otherwise; a0 then holds the resulting program_break.                   *)

C5_BrkResult ==
    (DidEcall(SyscallBrk) /\ Aligned(prev.registers[A0], WORD_SIZE))
    => LET r == prev.registers[A0]
       IN  /\ Completed
           /\ program_break =
                 IF prev.program_break <= r /\ r < prev.registers[Sp]
                 THEN r ELSE prev.program_break
           /\ registers[A0] = program_break

\* a request below a break that an earlier Brk has raised
C5_Witness ==
    /\ DidEcall(SyscallBrk)
    /\ Aligned(prev.registers[A0], WORD_SIZE)
    /\ prev.registers[A0] < prev.program_break
    /\ program_break = prev.program_break
    /\ program_break > initial_program_break(program)
    /\ registers[A0] = program_break

----------------------------------------------------------------------------
\* run() got past the ABI initialisation
AfterInit == at \notin {"new", "panic_init"}

(* C6 (as claimed): in every state after initialisation                    *)
(* data_end <= program_break <= value of the stack-pointer register.       *)

C6_AsClaimed ==
    AfterInit =>
        /\ DataEnd(program) <= program_break
        /\ program_break <= registers[Sp]

(* C6 (amended): in every state after an initialisation whose computation  *)
(* of the initial break does not overflow, data_end <= program_break; and  *)
(* a Brk call that changes program_break leaves it below the value of the  *)
(* stack-pointer register.                                                 *)

C6_BreakAboveDataAndBrkBelowSp ==
    /\ (AfterInit /\ ~InitialBreakOverflows(program))
          => DataEnd(program) <= program_break
    /\ (DidEcall(SyscallBrk) /\ program_break # prev.program_break)
          => /\ program_break < prev.registers[Sp]
             /\ registers[Sp] = prev.registers[Sp]

C6_Witness ==
    /\ DidEcall(SyscallBrk)
    /\ Completed
    /\ prev.program_break < program_break
    /\ DataEnd(program) <= program_break
    /\ program_break < registers[Sp]

(* C7 (as claimed): after an Ecall with a7 = Write and a0 = 1 the register *)
(* a0 holds the length that was passed in a2.                              *)

C7_AsClaimed ==
    (DidEcall(SyscallWrite) /\ prev.registers[A0] = 1 /\ Completed)
    => registers[A0] = prev.registers[A2]

\* the byte of memory `mem` at byte address adr (-1 outside the memory)
MemByte(mem, adr) ==
    IF MemIndex(adr) \in DOMAIN mem
    THEN to_le_bytes(mem[MemIndex(adr)])[(adr % WORD_SIZE) + 1]
    ELSE -1

(* C8 (as claimed): an Ecall with a7 = Write and a0 = 1 appends to         *)
(* standard output exactly the a2 bytes of memory at a1, a1 + 1, ...,      *)
(* a1 + a2 - 1, in this order.                                             *)

C8_AsClaimed ==
    (DidEcall(SyscallWrite) /\ prev.registers[A0] = 1 /\ Completed)
    => LET buffer == prev.registers[A1]
           length == prev.registers[A2]
       IN  out = prev.out \o [k \in 1..length |-> MemByte(prev.memory, buffer + k - 1)]

\* the bytes of memory `mem` from adr up to the first NUL
RECURSIVE ReadCStr(_, _)
ReadCStr(mem, adr) ==
    IF MemByte(mem, adr) <= 0 THEN << >>
    ELSE <<MemByte(mem, adr)>> \o ReadCStr(mem, adr + 1)

\* the word of the present memory at byte address adr (-1 outside)
WordAt(adr) == IF MemIndex(adr) \in DOMAIN memory THEN memory[MemIndex(adr)] ELSE -1

(* C9: after ABI initialisation with n argument strings and final stack    *)
(* pointer sp: mem[sp] = n; for i in 0..n-1 the word at sp + 8 * (i + 1)   *)
(* points to bytes that read up to the first NUL as argv[i] and lie above  *)
(* the words of the table; the words at sp + 8 * (n + 1) and               *)
(* sp + 8 * (n + 2) are 0.                                                 *)

C9_AbiLayout ==
    at = "loop" =>
        LET sp == registers[Sp]
            n  == Len(argv)
        IN  /\ Aligned(sp, WORD_SIZE)
            /\ WordAt(sp) = n
            /\ \A i \in 1..n :
                  /\ ReadCStr(memory, WordAt(sp + WORD_SIZE * i)) = argv[i]
                  /\ WordAt(sp + WORD_SIZE * i) >= sp + WORD_SIZE * (n + 3)
            /\ WordAt(sp + WORD_SIZE * (n + 1)) = 0
            /\ WordAt(sp + WORD_SIZE * (n + 2)) = 0

C9_Witness ==
    /\ at = "loop"
    /\ Len(argv) = 2
    /\ Len(argv[1]) = WORD_SIZE
    /\ Len(argv[2]) = 3
    /\ WordAt(registers[Sp]) = 2
    /\ ReadCStr(memory, WordAt(registers[Sp] + WORD_SIZE)) = argv[1]
    /\ ReadCStr(memory, WordAt(registers[Sp] + 2 * WORD_SIZE)) = argv[2]

(* C10: executing Beq at pc sets the program counter to pc + imm (mod the  *)
(* word size) when rs1 and rs2 hold equal values and to pc + 4 otherwise,  *)
(* changes no register and no memory word, and the instruction fetched     *)
(* next is the record of the code segment at the new program counter.      *)

C10_Beq ==
    [][ /\ Fetches("beq")
           => /\ program_counter' =
                    IF registers[Fetched.rs1] = registers[Fetched.rs2]
                    THEN wrapping_add(program_counter, AsU64(Fetched.imm))
                    ELSE wrapping_add(program_counter, INSTRUCTION_SIZE)
              /\ registers' = registers
              /\ memory' = memory
              /\ at' = "loop"
        /\ (Did("beq") /\ at = "loop" /\ at' \in {"loop", "panic_execute"})
           => /\ prev'.program_counter = program_counter
              /\ instr' = program.code.content[
                    ((program_counter - program.code.address) \div INSTRUCTION_SIZE) + 1]
      ]_vars

\* a taken backward branch
C10_Witness ==
    /\ Did("beq")
    /\ at = "loop"
    /\ instr.imm < 0
    /\ prev.registers[instr.rs1] = prev.registers[instr.rs2]
    /\ program_counter = prev.program_counter + instr.imm
    /\ steps > 3

----------------------------------------------------------------------------
(* C11: Add (t <- a + b) followed by Sub (t <- t - b) leaves t equal to a, *)
(* both wrapping modulo the word size and neither of them fatal.  The Add  *)
(* was the last instruction executed, with the values a, b of its sources  *)
(* in `prev`; the step is the Sub.                                         *)

C11_AddThenSub ==
    [][ (/\ Did("add")
         /\ instr.rd \notin {Zero, instr.rs1, instr.rs2}
         /\ Fetches("sub")
         /\ Fetched = Sub(instr.rd, instr.rd, instr.rs2))
        => /\ at = "loop"
           /\ registers[instr.rd] =
                 (prev.registers[instr.rs1] + prev.registers[instr.rs2]) % Modulus
           /\ at' = "loop"
           /\ registers'[instr.rd] = prev.registers[instr.rs1]
      ]_vars

\* the sum had wrapped, and the difference wrapped back
C11_Witness ==
    /\ Did("sub")
    /\ instr = Sub(T2, T2, T1)
    /\ at = "loop"
    /\ prev.registers[T2] = (registers[T0] + registers[T1]) % Modulus
    /\ registers[T0] + registers[T1] >= Modulus
    /\ prev.registers[T2] < registers[T1]
    /\ registers[T2] = registers[T0]

(* C12: for a and nonzero b the Divu result q and the Remu result r of     *)
(* (a, b) satisfy q * b + r = a (modulo the word size) and r < b; with     *)
(* b = 0 both Divu and Remu are fatal.  The Divu was the last instruction  *)
(* executed; the step is the Remu of the same sources.                     *)

C12_DivuRemu ==
    [][ /\ (/\ Did("divu")
            /\ at = "loop"
            /\ instr.rd \notin {Zero, instr.rs1, instr.rs2}
            /\ Fetches("remu")
            /\ Fetched.rs1 = instr.rs1
            /\ Fetched.rs2 = instr.rs2
            /\ Fetched.rd \notin {Zero, instr.rd})
           => LET a == registers[instr.rs1]
                  b == registers[instr.rs2]
                  q == registers'[instr.rd]
                  r == registers'[Fetched.rd]
              IN  /\ b # 0
                  /\ at' = "loop"
                  /\ (q * b + r) % Modulus = a
                  /\ r < b
        /\ ((Fetches("divu") \/ Fetches("remu")) /\ registers[Fetched.rs2] = 0)
           => /\ at' = "panic_execute"
              /\ registers' = registers
      ]_vars

C12_Witness ==
    /\ Did("remu")
    /\ at = "loop"
    /\ instr = Remu(Ra, T0, T1)
    /\ registers[T1] = 3
    /\ registers[T0] = Modulus - 1
    /\ registers[T2] * 3 + registers[Ra] = Modulus - 1
    /\ registers[Ra] < 3
    /\ registers[T2] > 0

(* C13: an Ecall continues the run only when a7 is Exit, Write or Brk; with *)
(* Read, Openat or any other number it is fatal, never a no-op, and a      *)
(* Write whose a0 is not 1 is fatal with no output produced.               *)

C13_EcallDispatch ==
    Did("ecall") =>
        /\ prev.registers[A7] \notin {SyscallExit, SyscallWrite, SyscallBrk}
           => at = "panic_execute"
        /\ (prev.registers[A7] = SyscallWrite /\ prev.registers[A0] # 1)
           => (at = "panic_execute" /\ out = prev.out)
        /\ at # "panic_execute"
           => prev.registers[A7] \in {SyscallExit, SyscallWrite, SyscallBrk}

\* a Write to descriptor 2 after a Write that had produced output
C13_Witness ==
    /\ DidEcall(SyscallWrite)
    /\ prev.registers[A0] = 2
    /\ prev.registers[A2] > 0
    /\ prev.out # << >>
    /\ out = prev.out
    /\ at = "panic_execute"

(* C14: no Ld or Sd step reads or writes a memory word through an          *)
(* effective address rs1 + imm that is not a multiple of 8, and the number *)
(* of memory words never changes.                                          *)

C14_AsClaimed ==
    /\ ((Did("ld") \/ Did("sd")) /\ at = "loop")
       => Aligned(wrapping_add(prev.registers[instr.rs1], AsU64(instr.imm)), WORD_SIZE)
    /\ instr # NoInstr => DOMAIN memory = DOMAIN prev.memory

(* C15: program_break never decreases from its initial value, and it       *)
(* changes only in a step that executes an Ecall with a7 = Brk.            *)

C15_BreakMonotonic ==
    [][ /\ at = "new" /\ at' = "loop"
           => program_break' = initial_program_break(program)
        /\ at # "new"
           => /\ program_break' >= program_break
              /\ program_break' # program_break
                 => (Fetches("ecall") /\ registers[A7] = SyscallBrk)
      ]_vars

\* a Brk call had raised the break, and the Addi after it left it alone
C15_Witness ==
    /\ Did("addi")
    /\ at = "loop"
    /\ steps >= 2
    /\ program_break > initial_program_break(program)
    /\ program_break = prev.program_break

(* C16: the step that executes an Ecall with a7 = Exit changes only        *)
(* running (to false) and the program counter (plus 4): registers, a0      *)
(* included, memory and program_break are unchanged; and no instruction is *)
(* fetched or executed after it.                                           *)

C16_ExitStep ==
    [][ /\ (Fetches("ecall") /\ registers[A7] = SyscallExit)
           => /\ at' = "loop"
              /\ ~running'
              /\ program_counter' = (program_counter + INSTRUCTION_SIZE) % Modulus
              /\ registers' = registers
              /\ memory' = memory
              /\ program_break' = program_break
              /\ out' = out
        /\ (AfterInit /\ ~running)
           => /\ at' = "returned"
              /\ UNCHANGED <<registers, memory, program_counter, program_break,
                             running, out, instr, prev, steps>>
      ]_vars

\* run() has returned after an Exit whose a0 was not 0
C16_Witness ==
    /\ DidEcall(SyscallExit)
    /\ at = "returned"
    /\ ~running
    /\ registers[A0] # 0
    /\ registers = prev.registers
    /\ program_counter = prev.program_counter + INSTRUCTION_SIZE

(* C17: Jalr computes its target from the value rs1 held before the        *)
(* instruction: when rd and rs1 are the same non-zero register holding v,  *)
(* after a Jalr at program counter pc with a 4-byte-aligned v + imm the    *)
(* program counter is v + imm (modulo the word size) and the register      *)
(* holds pc + 4, for every pc whose pc + 4 is a word.                      *)

C17_JalrSameRegister ==
    LET v      == prev.registers[instr.rs1]
        target == (v + AsU64(instr.imm)) % Modulus
    IN  (/\ Did("jalr")
         /\ instr.rd = instr.rs1
         /\ instr.rd # Zero
         /\ Aligned(target, INSTRUCTION_SIZE)
         /\ prev.program_counter + INSTRUCTION_SIZE < Modulus)
        => /\ at # "panic_execute"
           /\ program_counter = target
           /\ registers[instr.rd] = prev.program_counter + INSTRUCTION_SIZE

C17_Witness ==
    /\ Did("jalr")
    /\ instr = Jalr(T0, T0, 4)
    /\ at = "loop"
    /\ prev.registers[T0] = 8
    /\ program_counter = 12
    /\ registers[T0] = prev.program_counter + INSTRUCTION_SIZE
    /\ registers[T0] # prev.registers[T0]

(* C18: the instruction fetched at a program counter depends only on the   *)
(* immutable decoded program and the program counter, being the record at  *)
(* index (pc - code_base) / 4: no step changes the program, the            *)
(* instruction an iteration executes is that record, and after every step, *)
(* stores into the address range of the code segment included, a fetch at  *)
(* any address of the code segment returns the record of that address.     *)

C18_FetchFromProgram ==
    [][ /\ program' = program
        /\ (at = "loop" /\ running /\ steps < MaxSteps /\ FetchOk(Machine, program))
           => instr' = program.code.content[
                 ((program_counter - program.code.address) % Modulus)
                     \div INSTRUCTION_SIZE + 1]
        /\ \A k \in 1..Len(program.code.content) :
              LET adr == (program.code.address + INSTRUCTION_SIZE * (k - 1)) % Modulus
              IN  fetch_and_decode([Machine' EXCEPT !.program_counter = adr], program)
                     = program.code.content[k]
      ]_vars

\* the instruction after an Sd has been executed, fetched at an address
\* whose word of the memory that Sd had written
C18_Witness ==
    /\ at = "loop"
    /\ steps = 4
    /\ program.code.address = 0
    /\ program.data.content = << >>
    /\ Len(program.code.content) = 4
    /\ program.code.content[3].op = "sd"
    /\ instr = program.code.content[4]
    /\ prev.program_counter = 12
    /\ prev.memory[MemIndex(prev.program_counter)] # 0

\* the fatal conditions of an instruction, in the state `prev` before it
ZeroDivisor ==
    (Did("divu") \/ Did("remu")) /\ prev.registers[instr.rs2] = 0

UnalignedBrk ==
    DidEcall(SyscallBrk) /\ ~Aligned(prev.registers[A0], WORD_SIZE)

WriteToOtherDescriptor ==
    DidEcall(SyscallWrite) /\ prev.registers[A0] # 1

UnsupportedSyscall ==
    Did("ecall") /\ prev.registers[A7] \notin {SyscallExit, SyscallWrite, SyscallBrk}

OutOfRangeLdSd ==
    /\ Did("ld") \/ Did("sd")
    /\ ~MemInRange(prev, (prev.registers[instr.rs1] + AsU64(instr.imm)) % Modulus)

UnalignedJalr ==
    /\ Did("jalr")
    /\ ~Aligned((prev.registers[instr.rs1] + AsU64(instr.imm)) % Modulus,
                INSTRUCTION_SIZE)

\* the machine is as it was before the last instruction
MachineAsBefore ==
    /\ registers = prev.registers
    /\ memory = prev.memory
    /\ program_counter = prev.program_counter
    /\ program_break = prev.program_break

(* C19 (as claimed): every fatal condition aborts the run before the       *)
(* faulting instruction changes any machine state: for a zero divisor in   *)
(* Divu/Remu, an unaligned Brk request, a Write to a descriptor other than *)
(* 1, a Read/Openat/unknown system call, an out-of-range Ld or Sd and a    *)
(* Jalr whose target is not 4-byte aligned, the run is aborted and the     *)
(* registers, memory, program counter and program_break at the abort equal *)
(* their values before that instruction.                                   *)

C19_AsClaimed ==
    (\/ ZeroDivisor
     \/ UnalignedBrk
     \/ WriteToOtherDescriptor
     \/ UnsupportedSyscall
     \/ OutOfRangeLdSd
     \/ UnalignedJalr)
    => (at = "panic_execute" /\ MachineAsBefore)

(* C20: for every argument string of the ABI initialisation, of any length *)
(* L including 0 and the multiples of 8, the bytes stored on the stack     *)
(* start at an 8-byte-aligned address equal to the recorded argv pointer,  *)
(* read in increasing address order, and are followed by at least one NUL  *)
(* byte within the words pushed for that argument, which are               *)
(* floor(L / 8) + 1 words: they end where the words of the next argument   *)
(* start, those of the last argument at the top of the memory.             *)

C20_ArgumentStrings ==
    at = "loop" =>
        LET sp  == registers[Sp]
            n   == Len(argv)
            top == Cardinality(DOMAIN memory) * WORD_SIZE
        IN  \A i \in 1..n :
               LET ptr   == WordAt(sp + WORD_SIZE * i)
                   L     == Len(argv[i])
                   words == (L \div WORD_SIZE) + 1
                   end   == ptr + WORD_SIZE * words
               IN  /\ Aligned(ptr, WORD_SIZE)
                   /\ \A k \in 1..L : MemByte(memory, ptr + k - 1) = argv[i][k]
                   /\ \A a \in (ptr + L)..(end - 1) : MemByte(memory, a) = 0
                   /\ ptr + L < end
                   /\ end = IF i < n THEN WordAt(sp + WORD_SIZE * (i + 1)) ELSE top

\* an empty string and a string of 8 bytes
C20_Witness ==
    /\ at = "loop"
    /\ Len(argv) = 2
    /\ Len(argv[1]) = 0
    /\ Len(argv[2]) = WORD_SIZE
    /\ LET ptr1 == WordAt(registers[Sp] + WORD_SIZE)
           ptr2 == WordAt(registers[Sp] + 2 * WORD_SIZE)
       IN  /\ ptr2 = ptr1 + WORD_SIZE
           /\ ptr2 + 2 * WORD_SIZE = Cardinality(DOMAIN memory) * WORD_SIZE
           /\ MemByte(memory, ptr1) = 0
           /\ MemByte(memory, ptr2 + WORD_SIZE - 1) = argv[2][WORD_SIZE]
           /\ MemByte(memory, ptr2 + WORD_SIZE) = 0

====
